---- MODULE Spec2Model ----
(***************************************************************************)
(* Verification model of the upgradeScripts repository:                    *)
(*   - the k6 load drivers  load-tests/chat-load-test.js  and              *)
(*     load-tests/single-room-load-test.js  (specification SpecLoad);      *)
(*   - the poll cycle of  checkOpenSearchMetrics.ts  (SpecCollector);      *)
(*   - its threshold evaluator analyzeCriticalIssues as a function of the  *)
(*     fetched groups (SpecClassify).                                      *)
(*                                                                         *)
(* k6 execution model used by SpecLoad.  A k6 script is loaded once per    *)
(* JavaScript runtime: every virtual user (VU) owns one runtime, and       *)
(* handleSummary is called in one more runtime of its own.  A module-level *)
(* `let` is therefore one cell per runtime, while Counter / Rate metrics   *)
(* are samples that the k6 engine aggregates over all VUs.  Inside one     *)
(* runtime JavaScript runs to completion between the blocking calls        *)
(* http.post and sleep.  __VU is 1-based, __ITER counts the iterations of  *)
(* its own VU from 0, and the shared-iterations executor hands out         *)
(* options.iterations iterations to the options.vus VUs.                   *)
(***************************************************************************)
EXTENDS Integers, Sequences, FiniteSets, TLC

VARIABLES
    \* ---- load driver ----
    script,                     \* "chat" | "single": which load-test script runs
    started,                    \* iterations handed out by the executor so far
    vuPc,                       \* per VU: "idle" | "request" | "sleep"
    iter,                       \* per VU: __ITER of the current / next iteration
    room,                       \* per VU: room index of the payloads it sent (null: none yet)
    responses,                  \* per VU: the responses http.post returned, in order
    classified,                 \* per VU: isTimeout / isSuccess / error branch of its last response
    counters,                   \* the k6 Counter and Rate metrics (aggregated over VUs)
    firstErrorIteration,        \* per runtime (0 = the handleSummary runtime)
    firstS3SlowDownIteration,   \* per runtime
    firstTimeoutIteration,      \* per runtime
    report,                     \* <<>> until handleSummary ran, then <<its summary>>
    logs,                       \* per VU: the console lines its iterations wrote, in order
    \* ---- metrics collector ----
    cluster,                    \* the monitored cluster: what its diagnostic APIs would return
    mode,                       \* "single" | "continuous" (--continuous)
    interval,                   \* --interval=<seconds>
    pc,                         \* position of main / runFullCheck
    cycle,                      \* poll cycles begun so far, over all process runs (the clock of timestamps)
    metrics,                    \* the MetricsResult of the current cycle
    failed,                     \* fetch steps whose cluster call failed in the current cycle
    executed,                   \* fetch steps executed in the current cycle, in order
    cycleResult,                \* "none" | "snapshot" | "threw": how the last cycle ended
    waited,                     \* milliseconds of the last setTimeout (null: none yet)
    jsonFiles,                  \* number of snapshot files written
    csvRows,                    \* rows appended to metrics-summary.csv
    csvFile                     \* metrics-summary.csv: its lines (<<>>: no such file)

loadVars == <<script, started, vuPc, iter, room, responses, classified, counters,
              firstErrorIteration, firstS3SlowDownIteration, firstTimeoutIteration, report,
              logs>>
collectorVars == <<cluster, mode, interval, pc, cycle, metrics, failed, executed, cycleResult,
                   waited, jsonFiles, csvRows,
                   csvFile>>
vars == <<loadVars, collectorVars>>

\* JavaScript null / undefined of a numeric cell (iteration indices are >= 0).
null == -1

-----------------------------------------------------------------------------
(***************************************************************************)
(* LOAD DRIVER                                                             *)
(***************************************************************************)

NumVUs == 3        \* options.vus, scaled down
Iterations == 3    \* options.iterations, scaled down
NumRooms == 2      \* ROOMS_DATA.length, scaled down

VUs == 1..NumVUs
SummaryRuntime == 0
Runtimes == {SummaryRuntime} \cup VUs

\* A response of http.post: status, k6 error_code, and the body as the set of
\* markers its text contains (<<>> when k6 delivers no body).
Markers == {"SlowDown", "S3", "ServiceUnavailable", "InternalError"}
Responses ==
    { [status |-> 200, error_code |-> 0,    body |-> <<{}>>],
      [status |-> 201, error_code |-> 1050, body |-> <<{}>>],
      [status |-> 0,   error_code |-> 1050, body |-> <<>>],
      [status |-> 204, error_code |-> 0,    body |-> <<{}>>],
      [status |-> 500, error_code |-> 1500, body |-> <<{"InternalError"}>>],
      [status |-> 503, error_code |-> 1503, body |-> <<{"SlowDown", "S3"}>>] }

\* const roomIndex = (vuId - 1) % ROOMS_DATA.length
RoomIndexOffByOne(vuId, n) == vuId % n
RoomIndex(vuId, n) == (vuId - 1) % n

\* SINGLE_ROOM = ROOMS_DATA[0]
SingleRoomIndex == 0

SelectedRoom(s, vuId) == IF s = "chat" THEN RoomIndex(vuId, NumRooms) ELSE SingleRoomIndex

\* const isTimeout = response.status === 0 || response.error_code === 1050
IsTimeout(r) == r.status = 0 \/ r.error_code = 1050

\* const isSuccess = response.status === 200 || response.status === 201
IsSuccess(r) == r.status = 200 \/ r.status = 201

\* if (!isSuccess && !isTimeout)
IsGenericErrorUnguarded(r) == ~IsSuccess(r)
IsGenericError(r) == ~IsSuccess(r) /\ ~IsTimeout(r)

\* response.body && response.body.includes(m)
BodyIncludes(r, m) == r.body # <<>> /\ m \in r.body[1]

IsSlowDown(r) == BodyIncludes(r, "SlowDown")

\* the else-if branch: only reached when the SlowDown branch was not taken
IsS3ErrorUnguarded(r) ==
    \/ BodyIncludes(r, "S3")
    \/ BodyIncludes(r, "ServiceUnavailable")
    \/ BodyIncludes(r, "InternalError")
IsS3Error(r) ==
    /\ ~IsSlowDown(r)
    /\ \/ BodyIncludes(r, "S3")
       \/ BodyIncludes(r, "ServiceUnavailable")
       \/ BodyIncludes(r, "InternalError")

\* if (firstXIteration === null) { firstXIteration = iterationId }
LatchSetOverwrite(latch, iterationId) == iterationId
LatchSet(latch, iterationId) == IF latch = null THEN iterationId ELSE latch

Bump(b) == IF b THEN 1 ELSE 0

\* Counter.add(1) / Rate.add(isSuccess) calls of one iteration
CountResponseSuccessesOnly(c, r) ==
    [c EXCEPT !.total_requests = @ + Bump(IsSuccess(r)),
              !.total_errors = @ + Bump(~IsSuccess(r))]
CountResponse(c, r) ==
    [ total_requests     |-> c.total_requests + 1,
      success_samples    |-> c.success_samples + 1,
      success_true       |-> c.success_true + Bump(IsSuccess(r)),
      greendot_updates   |-> c.greendot_updates + Bump(IsSuccess(r)),
      timeout_errors     |-> c.timeout_errors + Bump(IsTimeout(r)),
      total_errors       |-> c.total_errors + Bump(IsTimeout(r)) + Bump(IsGenericError(r)),
      s3_slowdown_errors |-> c.s3_slowdown_errors + Bump(IsSlowDown(r)),
      s3_errors_total    |-> c.s3_errors_total + Bump(IsSlowDown(r)) + Bump(IsS3Error(r)) ]

ZeroCounters ==
    [ total_requests |-> 0, success_samples |-> 0, success_true |-> 0,
      greendot_updates |-> 0, timeout_errors |-> 0, total_errors |-> 0,
      s3_slowdown_errors |-> 0, s3_errors_total |-> 0 ]

\* if (isSuccess && iterationId % 1000 === 0): % 100 in single-room-load-test.js
ProgressEvery(s) == IF s = "chat" THEN 1000 ELSE 100

\* The console.error / console.log calls of one iteration, in the order of the
\* code, given the runtime's three latches as they are before the iteration.
LogLines(s, r, iterationId, timeoutLatch, errorLatch, slowDownLatch) ==
    (IF IsTimeout(r)
     THEN (IF timeoutLatch = null THEN <<"FIRST TIMEOUT">> ELSE <<"Timeout">>)
     ELSE <<>>)
    \o (IF IsGenericError(r) /\ errorLatch = null THEN <<"FIRST ERROR DETECTED">> ELSE <<>>)
    \o (IF IsSlowDown(r)
        THEN (IF slowDownLatch = null THEN <<"FIRST S3 SlowDown">> ELSE <<"S3 SlowDown">>)
        ELSE IF IsS3Error(r) THEN <<"S3 Error">> ELSE <<>>)
    \o (IF r.status >= 400 THEN <<"Request failed">> ELSE <<>>)
    \o (IF IsSuccess(r) /\ iterationId % ProgressEvery(s) = 0 THEN <<"Progress">> ELSE <<>>)

\* Where the default function is after the response was classified: no branch
\* returns or throws, every path reaches the sleep call.
AfterResponseStopsOnFailure(r) == IF IsSuccess(r) THEN "sleep" ELSE "stopped"
AfterResponse(r) == "sleep"

\* The executor starts the next iteration of an idle VU: the default function
\* runs up to http.post (payload built from the selected room, request sent).
StartIteration(v) ==
    /\ report = <<>>
    /\ vuPc[v] = "idle"
    /\ started < Iterations
    /\ started' = started + 1
    /\ room' = [room EXCEPT ![v] = SelectedRoom(script, v)]
    /\ vuPc' = [vuPc EXCEPT ![v] = "request"]
    /\ UNCHANGED <<script, iter, responses, classified, counters, firstErrorIteration,
                   firstS3SlowDownIteration, firstTimeoutIteration, report, logs>>
    /\ UNCHANGED collectorVars

\* http.post returns r: the default function runs from there to the sleep call.
Respond(v, r) ==
    /\ vuPc[v] = "request"
    /\ responses' = [responses EXCEPT ![v] = Append(@, r)]
    /\ counters' = CountResponse(counters, r)
    /\ classified' = [classified EXCEPT ![v] =
           <<[is_timeout |-> IsTimeout(r), is_success |-> IsSuccess(r),
              is_generic_error |-> IsGenericError(r)]>>]
    /\ firstTimeoutIteration' =
           IF IsTimeout(r)
           THEN [firstTimeoutIteration EXCEPT ![v] = LatchSet(@, iter[v])]
           ELSE firstTimeoutIteration
    /\ firstErrorIteration' =
           IF IsGenericError(r)
           THEN [firstErrorIteration EXCEPT ![v] = LatchSet(@, iter[v])]
           ELSE firstErrorIteration
    /\ firstS3SlowDownIteration' =
           IF IsSlowDown(r)
           THEN [firstS3SlowDownIteration EXCEPT ![v] = LatchSet(@, iter[v])]
           ELSE firstS3SlowDownIteration
    /\ logs' = [logs EXCEPT ![v] = Append(@, LogLines(script, r, iter[v],
                      firstTimeoutIteration[v], firstErrorIteration[v],
                      firstS3SlowDownIteration[v]))]
    /\ vuPc' = [vuPc EXCEPT ![v] = AfterResponse(r)]
    /\ UNCHANGED <<script, started, iter, room, report>>
    /\ UNCHANGED collectorVars

\* sleep returns and the default function ends: the VU's __ITER advances.
Wake(v) ==
    /\ vuPc[v] = "sleep"
    /\ vuPc' = [vuPc EXCEPT ![v] = "idle"]
    /\ iter' = [iter EXCEPT ![v] = @ + 1]
    /\ UNCHANGED <<script, started, room, responses, classified, counters,
                   firstErrorIteration, firstS3SlowDownIteration, firstTimeoutIteration,
                   report, logs>>
    /\ UNCHANGED collectorVars

\* data.metrics.<name>?.values?.count : undefined when the summary holds no such metric
MetricCount(count, present) == IF present THEN count ELSE null

\* (x).toFixed(2) of a non-negative quotient num/den, in hundredths
ToFixed2(num, den) == (2 * 100 * num + den) \div (2 * den)

JsInfinity == 2147483647 + 1

\* chat-load-test.js:  a?.count / b?.count * 100 || 0   (in hundredths of a percent)
RatePercentChat(e, r) ==
    IF e = null \/ r = null THEN 0                 \* NaN || 0
    ELSE IF r = 0 THEN (IF e = 0 THEN 0 ELSE JsInfinity)
    ELSE ToFixed2(100 * e, r)

\* single-room-load-test.js:  totalReqs > 0 ? (count / totalReqs * 100) : 0
RatePercentSingle(e, r) ==
    LET totalReqs == IF r = null THEN 0 ELSE r
        count == IF e = null THEN 0 ELSE e
    IN  IF totalReqs > 0 THEN ToFixed2(100 * count, totalReqs) ELSE 0

RatePercent(s, e, r) == IF s = "chat" THEN RatePercentChat(e, r) ELSE RatePercentSingle(e, r)

\* `count || 0` of the totals block
CountOrZero(c) == IF c = null THEN 0 ELSE c

\* handleSummary(data), called by k6 at the end of the run, in its own runtime.
\* The run ends when the iteration budget is used up, or earlier when a
\* --duration budget runs out or the run is interrupted; no iteration is in
\* flight any more.  `present`: whether k6 lists a metric that got no sample.
HandleSummary(present) ==
    /\ report = <<>>
    /\ \A v \in VUs : vuPc[v] = "idle"
    /\ LET has(c) == c > 0 \/ present
           tr == MetricCount(counters.total_requests, has(counters.total_requests))
           te == MetricCount(counters.total_errors, has(counters.total_errors))
           to == MetricCount(counters.timeout_errors, has(counters.timeout_errors))
       IN  report' =
             << [ first_timeout   |-> firstTimeoutIteration[SummaryRuntime],
                  first_error     |-> firstErrorIteration[SummaryRuntime],
                  first_slowdown  |-> firstS3SlowDownIteration[SummaryRuntime],
                  total_requests  |-> CountOrZero(tr),
                  total_errors    |-> CountOrZero(te),
                  timeout_errors  |-> CountOrZero(to),
                  error_rate      |-> RatePercent(script, te, tr),
                  timeout_rate    |-> RatePercent(script, to, tr) ] >>
    /\ UNCHANGED <<script, started, vuPc, iter, room, responses, classified, counters,
                   firstErrorIteration, firstS3SlowDownIteration, firstTimeoutIteration, logs>>
    /\ UNCHANGED collectorVars

\* The collector's variables while a load driver runs: the two programs share nothing.
CollectorIdle ==
    /\ cluster = <<>>
    /\ mode = "single"
    /\ interval = 0
    /\ pc = "off"
    /\ cycle = 0
    /\ metrics = <<>>
    /\ failed = {}
    /\ executed = <<>>
    /\ cycleResult = "none"
    /\ waited = null
    /\ jsonFiles = 0
    /\ csvRows = 0
    /\ csvFile = <<>>

LoadInit ==
    /\ script \in {"chat", "single"}
    /\ started = 0
    /\ vuPc = [v \in VUs |-> "idle"]
    /\ iter = [v \in VUs |-> 0]
    /\ room = [v \in VUs |-> null]
    /\ responses = [v \in VUs |-> <<>>]
    /\ logs = [v \in VUs |-> <<>>]
    /\ classified = [v \in VUs |-> <<>>]
    /\ counters = ZeroCounters
    /\ firstErrorIteration = [x \in Runtimes |-> null]
    /\ firstS3SlowDownIteration = [x \in Runtimes |-> null]
    /\ firstTimeoutIteration = [x \in Runtimes |-> null]
    /\ report = <<>>
    /\ CollectorIdle

LoadNext ==
    \/ \E v \in VUs : StartIteration(v)
    \/ \E v \in VUs, r \in Responses : Respond(v, r)
    \/ \E v \in VUs : Wake(v)
    \/ \E present \in BOOLEAN : HandleSummary(present)

SpecLoad == LoadInit /\ [][LoadNext]_vars

-----------------------------------------------------------------------------
(***************************************************************************)
(* LOAD DRIVER: properties                                                 *)
(***************************************************************************)

\* Iteration index (__ITER) of the first response of a VU's history that
\* satisfies P, or null when there is none: the i-th response of a VU is the
\* response of its iteration i - 1.
FirstOccurrence(seq, P(_)) ==
    IF \E i \in DOMAIN seq : P(seq[i])
    THEN (CHOOSE i \in DOMAIN seq :
             P(seq[i]) /\ \A j \in DOMAIN seq : P(seq[j]) => i <= j) - 1
    ELSE null

\* C1: in every runtime of the load driver each breakpoint latch is unset as
\* long as its condition never occurred there, and otherwise holds the
\* iteration index of the first occurrence, however many occurrences followed.
C1_LatchHoldsFirstOccurrence ==
    /\ \A v \in VUs :
        /\ firstTimeoutIteration[v] = FirstOccurrence(responses[v], IsTimeout)
        /\ firstErrorIteration[v] = FirstOccurrence(responses[v], IsGenericError)
        /\ firstS3SlowDownIteration[v] = FirstOccurrence(responses[v], IsSlowDown)
    /\ firstTimeoutIteration[SummaryRuntime] = null
    /\ firstErrorIteration[SummaryRuntime] = null
    /\ firstS3SlowDownIteration[SummaryRuntime] = null

\* A VU saw its timeout condition again after the latch was set.
C1_Witness ==
    \E v \in VUs : \E i \in DOMAIN responses[v] :
        /\ firstTimeoutIteration[v] # null
        /\ IsTimeout(responses[v][i])
        /\ i - 1 > firstTimeoutIteration[v]

\* C2 (as claimed): every classified response is exactly one of success,
\* timeout and generic error.
C2_ExactlyOneCategory ==
    \A v \in VUs :
        classified[v] # <<>> =>
            LET c == classified[v][1]
            IN  Bump(c.is_success) + Bump(c.is_timeout) + Bump(c.is_generic_error) = 1

\* Number of assignments a latch received during the run: every runtime writes
\* its own cell at most once (C1), so it is the number of cells that are set.
LatchWrites(latch) == Cardinality({x \in Runtimes : latch[x] # null})

\* C5 (as claimed): with several virtual users each latch is written at most
\* once during the whole run (first writer wins).
C5_LatchWrittenAtMostOnce ==
    /\ LatchWrites(firstTimeoutIteration) <= 1
    /\ LatchWrites(firstErrorIteration) <= 1
    /\ LatchWrites(firstS3SlowDownIteration) <= 1

\* C6: the error rate and the timeout rate of the end-of-run report (printed as
\* percentages with two decimals, here in hundredths of a percent) lie between
\* 0% and 100%, are the quotient of the counters up to the rounding of the
\* last digit, and are exactly 0 when no request was made, in both scripts.
C6_RatesInRange ==
    report # <<>> =>
        LET rep == report[1]
        IN  /\ rep.error_rate \in 0..10000
            /\ rep.timeout_rate \in 0..10000
            /\ rep.total_requests = counters.total_requests
            /\ rep.total_requests = 0 => rep.error_rate = 0 /\ rep.timeout_rate = 0
            /\ rep.total_requests > 0 =>
                /\ 2 * rep.error_rate * rep.total_requests
                     \in (20000 * counters.total_errors - rep.total_requests)
                         .. (20000 * counters.total_errors + rep.total_requests)
                /\ 2 * rep.timeout_rate * rep.total_requests
                     \in (20000 * counters.timeout_errors - rep.total_requests)
                         .. (20000 * counters.timeout_errors + rep.total_requests)

\* The multi-room script reports a run that made no request (0 / 0).
C6_Witness ==
    /\ script = "chat"
    /\ report # <<>>
    /\ report[1].total_requests = 0
    /\ report[1].error_rate = 0

-----------------------------------------------------------------------------
(***************************************************************************)
(* METRICS COLLECTOR: the monitored cluster and the fetch functions        *)
(***************************************************************************)

\* A group of the MetricsResult is <<>> (null) or <<value>>.
Some(x) == <<x>>
None == <<>>
Val(o) == o[1]

RECURSIVE Concat(_)
Concat(ss) == IF ss = <<>> THEN <<>> ELSE Head(ss) \o Concat(Tail(ss))

RECURSIVE SumSeq(_)
SumSeq(ns) == IF ns = <<>> THEN 0 ELSE Head(ns) + SumSeq(Tail(ns))

MaxOf(S) == CHOOSE x \in S : \A y \in S : y <= x

\* (num / den).toFixed(0)
ToFixed0(num, den) == (2 * num + den) \div (2 * den)

\* The cluster as its diagnostic APIs show it.  Thread pools and nodes of the
\* modelled cluster; "management" is a pool the scripts do not look at.
Pools == <<"search", "write", "refresh", "management">>
WatchedPools == {"search", "write", "refresh"}
Nodes == <<"node-1", "node-2">>
Breakers == <<"parent", "request", "fielddata", "in_flight_requests">>

Statuses == {"green", "yellow", "red"}
QueueDepths == {40, 50, 51, 80, 81}          \* of a queue_size of 100
RejectedCounts == {0, 2}
HeapPercents == {70, 75, 76, 85, 86}
CpuPercents == {50, 80, 81, 90, 91}
OldGcCounts == {10, 11}
RefreshTimes == {20, 100, 101, 200, 201}     \* total_time_in_millis of 2 refreshes
PendingCounts == {0, 10, 11}
TaskLists == {<<>>, <<6>>, <<11>>, <<31>>, <<6, 6, 6, 6, 6, 6>>}   \* running search tasks, seconds
TripCounts == {0, 1}
QueryCacheEvictions == {0, 5001, 10000, 10001}
FieldDataEvictions == {0, 1000, 1001}
SegmentCounts == {100, 500, 501}

BaselineCluster ==
    [ status              |-> "green",
      number_of_nodes     |-> Len(Nodes),
      queue               |-> [p \in WatchedPools |-> 40],
      rejected            |-> [p \in WatchedPools |-> 0],
      heap                |-> [n \in DOMAIN Nodes |-> 70],
      cpu                 |-> [n \in DOMAIN Nodes |-> 50],
      old_gc              |-> [n \in DOMAIN Nodes |-> 10],
      refresh_time        |-> 20,
      pending             |-> 0,
      tasks               |-> <<>>,
      tripped             |-> [b \in DOMAIN Breakers |-> 0],
      query_cache         |-> 0,
      field_data          |-> 0,
      segments            |-> 100,
      segments_user_rooms |-> 100 ]

\* GET _cat/thread_pool?format=json : one row per pool (fields are decimal
\* strings in the response; parseInt of them is the number kept here).
CatThreadPool(c) ==
    [ i \in DOMAIN Pools |->
        IF Pools[i] \in WatchedPools
        THEN [name |-> Pools[i], rejected |-> c.rejected[Pools[i]],
              queue |-> c.queue[Pools[i]], queue_size |-> 100]
        ELSE [name |-> Pools[i], rejected |-> 0, queue |-> 0, queue_size |-> -1] ]

\* checkClusterHealth: health.body
CheckClusterHealth(c) == [status |-> c.status, number_of_nodes |-> c.number_of_nodes]

\* checkThreadPools: the rows of the six critical pools
CheckThreadPools(rows) ==
    SelectSeq(rows, LAMBDA p : p.name \in {"write", "bulk", "search", "get", "index", "refresh"})

\* checkNodeStats: Object.values(stats.body.nodes)
CheckNodeStats(c) ==
    [ n \in DOMAIN Nodes |->
        [name |-> Nodes[n], heap_used_percent |-> c.heap[n], cpu_percent |-> c.cpu[n],
         old_gc_count |-> c.old_gc[n]] ]

\* checkNodeStats: const heapWarning = heapUsedPercent > 75 ? ' HIGH' : heapUsedPercent > 85 ? ' CRITICAL' : ''
HeapWarning(heapUsedPercent) ==
    IF heapUsedPercent > 75 THEN "HIGH" ELSE IF heapUsedPercent > 85 THEN "CRITICAL" ELSE ""

\* checkNodeStats: const cpuWarning = cpuPercent > 80 ? ' HIGH' : cpuPercent > 90 ? ' CRITICAL' : ''
CpuWarning(cpuPercent) ==
    IF cpuPercent > 80 THEN "HIGH" ELSE IF cpuPercent > 90 THEN "CRITICAL" ELSE ""

\* checkIndexStats: indexData.total
CheckIndexStats(c) ==
    [refresh_total |-> 2, refresh_time_in_millis |-> c.refresh_time,
     index_total |-> 1000, index_time_in_millis |-> 500]

\* checkActiveTasks: counts of the search tasks by running time (seconds here,
\* running_time_in_nanos in the code)
CountOver(tasks, limit) == Cardinality({i \in DOMAIN tasks : tasks[i] > limit})
CheckActiveTasks(tasks) ==
    [ total |-> Len(tasks), searchTasks |-> Len(tasks),
      longRunning5s  |-> CountOver(tasks, 5),
      longRunning10s |-> CountOver(tasks, 10),
      longRunning30s |-> CountOver(tasks, 30) ]
ActiveTasksFallback ==
    [total |-> 0, searchTasks |-> 0, longRunning5s |-> 0, longRunning10s |-> 0,
     longRunning30s |-> 0]

\* checkCircuitBreakerStatus: totalTrips sums parent, request and fielddata
CheckCircuitBreakerStatus(c) ==
    [ totalTrips |->
        SumSeq([b \in DOMAIN Breakers |->
                  IF Breakers[b] \in {"parent", "request", "fielddata"}
                  THEN c.tripped[b] ELSE 0]) ]
CircuitBreakerFallback == [totalTrips |-> 0]

\* checkCacheMetrics
CheckCacheMetrics(c) ==
    [queryCacheEvictions |-> c.query_cache, fieldDataEvictions |-> c.field_data]
CacheMetricsFallback == [queryCacheEvictions |-> 0, fieldDataEvictions |-> 0]

\* checkSegmentStats
CheckSegmentStats(count) == [count |-> count]

\* checkQueueMetrics: saturation = (queue / queue_size * 100).toFixed(2), kept
\* in hundredths of a percent; maxSaturation over the rows of four pools
Saturation(p) == IF p.queue_size > 0 THEN ToFixed2(100 * p.queue, p.queue_size) ELSE 0
CheckQueueMetrics(rows) ==
    LET poolData == SelectSeq(rows, LAMBDA p : p.name \in {"write", "bulk", "search", "get"})
    IN  [ maxSaturation |-> MaxOf({0} \cup {Saturation(poolData[i]) : i \in DOMAIN poolData}),
          poolData |-> poolData ]
QueueMetricsFallback == [maxSaturation |-> 0, poolData |-> <<>>]

\* checkHotThreads
CheckHotThreads(c) == [summary |-> "hot threads"]
HotThreadsFallback == [summary |-> "Not available"]

\* The awaited calls of runFullCheck after the client initialization, in order.
\* throws: the check function has no try/catch, a failing cluster call rejects.
FetchSteps ==
    << [name |-> "clusterHealth",           throws |-> TRUE],
       [name |-> "threadPoolStats",         throws |-> TRUE],
       [name |-> "nodeStats",               throws |-> TRUE],
       [name |-> "indexStats",              throws |-> FALSE],
       [name |-> "indexStatsUserRooms",     throws |-> FALSE],
       [name |-> "indexSettings",           throws |-> FALSE],
       [name |-> "indexSettingsUserRooms",  throws |-> FALSE],
       [name |-> "clusterStats",            throws |-> TRUE],
       [name |-> "pendingTasks",            throws |-> TRUE],
       [name |-> "activeTasks",             throws |-> FALSE],
       [name |-> "circuitBreakerStatus",    throws |-> FALSE],
       [name |-> "cacheMetrics",            throws |-> FALSE],
       [name |-> "segmentStats",            throws |-> FALSE],
       [name |-> "segmentStatsUserRooms",   throws |-> FALSE],
       [name |-> "queueMetrics",            throws |-> FALSE],
       [name |-> "hotThreads",              throws |-> FALSE] >>

\* Groups stored in the MetricsResult (the index settings are only printed).
Groups ==
    {FetchSteps[i].name : i \in DOMAIN FetchSteps} \ {"indexSettings", "indexSettingsUserRooms"}

\* What a check function returns when its cluster call succeeds ...
FetchOk(g, c) ==
    CASE g = "clusterHealth"         -> Some(CheckClusterHealth(c))
      [] g = "threadPoolStats"       -> Some(CheckThreadPools(CatThreadPool(c)))
      [] g = "nodeStats"             -> Some(CheckNodeStats(c))
      [] g = "indexStats"            -> Some(CheckIndexStats(c))
      [] g = "indexStatsUserRooms"   -> Some(CheckIndexStats(c))
      [] g = "clusterStats"          -> Some("cluster settings")
      [] g = "pendingTasks"          -> Some(c.pending)
      [] g = "activeTasks"           -> Some(CheckActiveTasks(c.tasks))
      [] g = "circuitBreakerStatus"  -> Some(CheckCircuitBreakerStatus(c))
      [] g = "cacheMetrics"          -> Some(CheckCacheMetrics(c))
      [] g = "segmentStats"          -> Some(CheckSegmentStats(c.segments))
      [] g = "segmentStatsUserRooms" -> Some(CheckSegmentStats(c.segments_user_rooms))
      [] g = "queueMetrics"          -> Some(CheckQueueMetrics(CatThreadPool(c)))
      [] g = "hotThreads"            -> Some(CheckHotThreads(c))

\* ... and what its catch block returns when the call fails.
FetchFallback(g) ==
    CASE g = "activeTasks"           -> Some(ActiveTasksFallback)
      [] g = "circuitBreakerStatus"  -> Some(CircuitBreakerFallback)
      [] g = "cacheMetrics"          -> Some(CacheMetricsFallback)
      [] g = "queueMetrics"          -> Some(QueueMetricsFallback)
      [] g = "hotThreads"            -> Some(HotThreadsFallback)
      [] OTHER                       -> None

InitialSummary ==
    [ critical_issues |-> <<>>, warnings |-> <<>>, health_status |-> "unknown",
      active_searches |-> 0, long_running_queries_5s |-> 0, long_running_queries_10s |-> 0,
      long_running_queries_30s |-> 0, circuit_breaker_trips |-> 0,
      search_queue_saturation_pct |-> 0 ]

\* const metrics: MetricsResult = { timestamp, clusterHealth: null, ... }
FreshMetricsResult ==
    [ timestamp |-> 0, clusterHealth |-> None, threadPoolStats |-> None, nodeStats |-> None,
      indexStats |-> None, indexStatsUserRooms |-> None, clusterStats |-> None,
      pendingTasks |-> None, activeTasks |-> None, circuitBreakerStatus |-> None,
      cacheMetrics |-> None, segmentStats |-> None, segmentStatsUserRooms |-> None,
      hotThreads |-> None, queueMetrics |-> None, summary |-> InitialSummary ]

\* metrics.<g> = await this.check...()
StoreGroup(m, g, value) ==
    IF g \in Groups THEN [m EXCEPT ![g] = value] ELSE m

-----------------------------------------------------------------------------
(***************************************************************************)
(* METRICS COLLECTOR: analyzeCriticalIssues                                *)
(***************************************************************************)

\* One triggered rule: the list it is pushed to (severity), the rule, what
\* it is about (pool, node or index name) and the number in its message.
Finding(severity, rule, subject, value) ==
    [severity |-> severity, rule |-> rule, subject |-> subject, value |-> value]

When(cond, finding) == IF cond THEN <<finding>> ELSE <<>>

\* if (status === 'red') issues.push  else if (status === 'yellow') warnings.push
StatusSeverity(status) ==
    IF status = "red" THEN "critical" ELSE IF status = "yellow" THEN "warning" ELSE "none"

RejectionSeverityWarning(rejected) == IF rejected > 0 THEN "warning" ELSE "none"

\* if (parseInt(pool.rejected) > 0) issues.push
RejectionSeverity(rejected) == IF rejected > 0 THEN "critical" ELSE "none"

\* if (circuitBreakerStatus && circuitBreakerStatus.totalTrips > 0) issues.push
TripSeverity(totalTrips) == IF totalTrips > 0 THEN "critical" ELSE "none"

\* if (queueSize > 0 && queueDepth > queueSize * 0.8) warnings.push
PoolQueueSeverity(p) ==
    IF p.queue_size > 0 /\ 10 * p.queue > 8 * p.queue_size THEN "warning" ELSE "none"

\* if (heapPercent > 85) issues.push  else if (heapPercent > 75) warnings.push
JvmSeverityWarningFirst(heapPercent) ==
    IF heapPercent > 75 THEN "warning" ELSE IF heapPercent > 85 THEN "critical" ELSE "none"
JvmSeverity(heapPercent) ==
    IF heapPercent > 85 THEN "critical" ELSE IF heapPercent > 75 THEN "warning" ELSE "none"

\* if (cpuPercent > 90) issues.push  else if (cpuPercent > 80) warnings.push
CpuSeverity(cpuPercent) ==
    IF cpuPercent > 90 THEN "critical" ELSE IF cpuPercent > 80 THEN "warning" ELSE "none"

\* avgRefreshTime = total > 0 ? total_time_in_millis / total : 0 ;  > 100, > 50
RefreshSeverity(ix) ==
    IF ix.refresh_total > 0 /\ ix.refresh_time_in_millis > 100 * ix.refresh_total
    THEN "critical"
    ELSE IF ix.refresh_total > 0 /\ ix.refresh_time_in_millis > 50 * ix.refresh_total
         THEN "warning" ELSE "none"

\* maxSaturation > 80  else  maxSaturation > 50   (hundredths of a percent)
SaturationSeverity(maxSaturation) ==
    IF maxSaturation > 8000 THEN "critical"
    ELSE IF maxSaturation > 5000 THEN "warning" ELSE "none"

Triggered(severity, rule, subject, value) ==
    When(severity # "none", Finding(severity, rule, subject, value))

\* metrics.threadPoolStats.forEach(pool => ...)
PoolFindings(p) ==
    Triggered(RejectionSeverity(p.rejected), "rejections", p.name, p.rejected)
    \o Triggered(PoolQueueSeverity(p), "queue", p.name,
                 IF p.queue_size > 0 THEN ToFixed0(100 * p.queue, p.queue_size) ELSE 0)

\* metrics.nodeStats.forEach(node => ...)
NodeFindings(node) ==
    Triggered(JvmSeverity(node.heap_used_percent), "jvm", node.name, node.heap_used_percent)
    \o Triggered(CpuSeverity(node.cpu_percent), "cpu", node.name, node.cpu_percent)
    \o When(node.old_gc_count > 10, Finding("warning", "old_gc", node.name, node.old_gc_count))

\* if (metrics.activeTasks) { ... }
TaskFindings(t) ==
    When(t.longRunning30s > 0, Finding("critical", "long_running_30s", "", t.longRunning30s))
    \o When(t.longRunning10s > 0, Finding("warning", "long_running_10s", "", t.longRunning10s))
    \o When(t.longRunning5s > 5, Finding("warning", "long_running_5s", "", t.longRunning5s))

\* if (metrics.cacheMetrics) { ... }
CacheFindings(cm) ==
    When(cm.queryCacheEvictions > 10000,
         Finding("warning", "query_cache", "", cm.queryCacheEvictions))
    \o When(cm.fieldDataEvictions > 1000,
            Finding("warning", "field_data", "", cm.fieldDataEvictions))

\* The rules of analyzeCriticalIssues in evaluation order; each push appends
\* to issues or to warnings, so both lists keep this order.
Findings(m) ==
    LET health == Val(m.clusterHealth)
        pools == Val(m.threadPoolStats)
        nodes == Val(m.nodeStats)
    IN  Triggered(StatusSeverity(health.status), "cluster_status", "", 0)
        \o Concat([i \in DOMAIN pools |-> PoolFindings(pools[i])])
        \o Concat([i \in DOMAIN nodes |-> NodeFindings(nodes[i])])
        \o (IF m.indexStats # None
            THEN Triggered(RefreshSeverity(Val(m.indexStats)), "refresh", "",
                           ToFixed2(Val(m.indexStats).refresh_time_in_millis,
                                    Val(m.indexStats).refresh_total))
            ELSE <<>>)
        \o When(Val(m.pendingTasks) > 10, Finding("warning", "pending_tasks", "", Val(m.pendingTasks)))
        \o (IF m.activeTasks # None THEN TaskFindings(Val(m.activeTasks)) ELSE <<>>)
        \o (IF m.circuitBreakerStatus # None
            THEN Triggered(TripSeverity(Val(m.circuitBreakerStatus).totalTrips),
                           "circuit_breaker", "", Val(m.circuitBreakerStatus).totalTrips)
            ELSE <<>>)
        \o (IF m.queueMetrics # None
            THEN Triggered(SaturationSeverity(Val(m.queueMetrics).maxSaturation), "saturation",
                           "", Val(m.queueMetrics).maxSaturation)
            ELSE <<>>)
        \o (IF m.segmentStats # None
            THEN When(Val(m.segmentStats).count > 500,
                      Finding("warning", "segments", "pms_green_dot", Val(m.segmentStats).count))
            ELSE <<>>)
        \o (IF m.segmentStatsUserRooms # None
            THEN When(Val(m.segmentStatsUserRooms).count > 500,
                      Finding("warning", "segments", "pms-user-rooms",
                              Val(m.segmentStatsUserRooms).count))
            ELSE <<>>)
        \o (IF m.cacheMetrics # None THEN CacheFindings(Val(m.cacheMetrics)) ELSE <<>>)

\* The fields analyzeCriticalIssues stores into metrics.summary on its way.
SummaryFields(m) ==
    LET hasTasks == m.activeTasks # None
        tripped == m.circuitBreakerStatus # None /\ Val(m.circuitBreakerStatus).totalTrips > 0
        saturated == m.queueMetrics # None /\ Val(m.queueMetrics).maxSaturation > 5000
    IN  [ active_searches |->
              IF hasTasks THEN Val(m.activeTasks).searchTasks ELSE m.summary.active_searches,
          long_running_queries_5s |->
              IF hasTasks THEN Val(m.activeTasks).longRunning5s
              ELSE m.summary.long_running_queries_5s,
          long_running_queries_10s |->
              IF hasTasks THEN Val(m.activeTasks).longRunning10s
              ELSE m.summary.long_running_queries_10s,
          long_running_queries_30s |->
              IF hasTasks THEN Val(m.activeTasks).longRunning30s
              ELSE m.summary.long_running_queries_30s,
          circuit_breaker_trips |->
              IF tripped THEN Val(m.circuitBreakerStatus).totalTrips
              ELSE m.summary.circuit_breaker_trips,
          search_queue_saturation_pct |->
              IF saturated THEN Val(m.queueMetrics).maxSaturation
              ELSE m.summary.search_queue_saturation_pct ]

\* Reading .status / .forEach / .length of a group that is null throws.
AnalyzeThrows(m) ==
    \/ m.clusterHealth = None
    \/ m.threadPoolStats = None
    \/ m.nodeStats = None
    \/ m.pendingTasks = None

\* analyzeCriticalIssues(metrics): the MetricsResult with its summary assigned
AnalyzeCriticalIssues(m) ==
    LET findings == Findings(m)
        fields == SummaryFields(m)
    IN  [m EXCEPT !.summary =
          [ critical_issues |-> SelectSeq(findings, LAMBDA f : f.severity = "critical"),
            warnings |-> SelectSeq(findings, LAMBDA f : f.severity = "warning"),
            health_status |-> Val(m.clusterHealth).status,
            active_searches |-> fields.active_searches,
            long_running_queries_5s |-> fields.long_running_queries_5s,
            long_running_queries_10s |-> fields.long_running_queries_10s,
            long_running_queries_30s |-> fields.long_running_queries_30s,
            circuit_breaker_trips |-> fields.circuit_breaker_trips,
            search_queue_saturation_pct |-> fields.search_queue_saturation_pct ]]

-----------------------------------------------------------------------------
(***************************************************************************)
(* METRICS COLLECTOR: main and runFullCheck                                *)
(***************************************************************************)

MaxCycles == 2     \* poll cycles the model follows, over all process runs

\* A cluster under load, for the poll cycles of SpecCollector.
StressedCluster ==
    [BaselineCluster EXCEPT !.status = "yellow", !.heap[1] = 86, !.queue["search"] = 81,
                            !.tasks = <<11>>, !.tripped[1] = 1]

\* Where main continues when runFullCheck rejected: the catch of the loop
\* (log, then wait) in continuous mode; main().catch(console.error) otherwise.
AfterThrowExits(m) == "exit"
AfterThrow(m) == IF m = "continuous" THEN "waitAfterError" ELSE "exit"

\* Where main continues when runFullCheck returned.
AfterReturnLoops(m) == "wait"
AfterReturn(m) == IF m = "continuous" THEN "wait" ELSE "exit"

\* setTimeout(resolve, interval * 1000)
SleepMs(seconds) == seconds * 1000

\* const timestamp = new Date().toISOString(); const metrics = { timestamp, ... }:
\* the object of this call; nothing of the previous call's object is read.
NewMetricsResultKeepsSummary(previous, timestamp) ==
    [FreshMetricsResult EXCEPT !.timestamp = timestamp, !.summary = previous.summary]
NewMetricsResult(previous, timestamp) == [FreshMetricsResult EXCEPT !.timestamp = timestamp]

ReusesClient(c) == IF c = 1 THEN "init" ELSE "fetch"

\* The first statement of runFullCheck's try, in every call (c: number of the
\* call): await this.initializeOpenSearchClient()
FirstStep(c) == "init"

\* The loop (or the single run) calls runFullCheck: a fresh MetricsResult.
BeginCycle ==
    /\ pc = "start"
    /\ cycle < MaxCycles
    /\ cycle' = cycle + 1
    /\ metrics' = NewMetricsResult(metrics, cycle + 1)
    /\ failed' = {}
    /\ executed' = <<>>
    /\ cycleResult' = "running"
    /\ pc' = FirstStep(cycle + 1)
    /\ UNCHANGED <<cluster, mode, interval, waited, jsonFiles, csvRows,
                   csvFile>>
    /\ UNCHANGED loadVars

\* await this.initializeOpenSearchClient(): logs and rethrows on failure,
\* runFullCheck logs and rethrows again.
InitializeClient(ok) ==
    /\ pc = "init"
    /\ IF ok
       THEN pc' = "fetch" /\ UNCHANGED cycleResult
       ELSE pc' = AfterThrow(mode) /\ cycleResult' = "threw"
    /\ UNCHANGED <<cluster, mode, interval, cycle, metrics, failed, executed, waited,
                   jsonFiles, csvRows,
                   csvFile>>
    /\ UNCHANGED loadVars

\* The next awaited check of runFullCheck; ok: whether its cluster call succeeds.
Fetch(ok) ==
    /\ pc = "fetch"
    /\ ok \/ failed = {}          \* cycles with at most one failing cluster call
    /\ LET step == FetchSteps[Len(executed) + 1]
           last == Len(executed) + 1 = Len(FetchSteps)
       IN  /\ executed' = Append(executed, step.name)
           /\ failed' = IF ok THEN failed ELSE failed \cup {step.name}
           /\ IF ok
              THEN /\ metrics' = StoreGroup(metrics, step.name, FetchOk(step.name, cluster))
                   /\ pc' = IF last THEN "analyze" ELSE "fetch"
                   /\ UNCHANGED cycleResult
              ELSE IF step.throws
                   THEN /\ pc' = AfterThrow(mode)
                        /\ cycleResult' = "threw"
                        /\ UNCHANGED metrics
                   ELSE /\ metrics' = StoreGroup(metrics, step.name, FetchFallback(step.name))
                        /\ pc' = IF last THEN "analyze" ELSE "fetch"
                        /\ UNCHANGED cycleResult
    /\ UNCHANGED <<cluster, mode, interval, cycle, waited, jsonFiles, csvRows,
                   csvFile>>
    /\ UNCHANGED loadVars

\* await this.analyzeCriticalIssues(metrics)
Analyze ==
    /\ pc = "analyze"
    /\ IF AnalyzeThrows(metrics)
       THEN pc' = AfterThrow(mode) /\ cycleResult' = "threw" /\ UNCHANGED metrics
       ELSE pc' = "saveJson" /\ metrics' = AnalyzeCriticalIssues(metrics) /\ UNCHANGED cycleResult
    /\ UNCHANGED <<cluster, mode, interval, cycle, failed, executed, waited, jsonFiles, csvRows,
                   csvFile>>
    /\ UNCHANGED loadVars

AfterSnapshotFailureContinues(m) == "saveCsv"

\* mkdirSync / writeFileSync threw inside the try: the catch logs and rethrows,
\* the call of saveSummaryCSV after it is skipped.
AfterSnapshotFailure(m) == AfterThrow(m)

\* fs.writeFileSync(filepath, JSON.stringify(metrics, null, 2));
\* ok: whether the directory and the file could be written.
SaveJson(ok) ==
    /\ pc = "saveJson"
    /\ IF ok
       THEN jsonFiles' = jsonFiles + 1 /\ pc' = "saveCsv" /\ UNCHANGED cycleResult
       ELSE /\ pc' = AfterSnapshotFailure(mode)
            /\ cycleResult' = "threw"
            /\ UNCHANGED jsonFiles
    /\ UNCHANGED <<cluster, mode, interval, cycle, metrics, failed, executed,
                   waited, csvRows,
                   csvFile>>
    /\ UNCHANGED loadVars

\* saveSummaryCSV: const headers = [...]
CsvHeaders ==
    << "timestamp", "cluster_status", "active_nodes", "pending_tasks", "write_rejections",
       "bulk_rejections", "search_rejections", "jvm_memory_percent", "cpu_percent",
       "avg_refresh_time_ms", "indexing_rate", "critical_issues_count", "warnings_count",
       "active_searches", "long_running_queries_5s", "long_running_queries_10s",
       "long_running_queries_30s", "circuit_breaker_trips", "search_queue_saturation_pct",
       "segment_count_pms_green_dot", "segment_count_pms_user_rooms",
       "query_cache_evictions", "field_data_evictions" >>

\* group?.field : undefined (None) when the group is null, else the field
Chain(group, field) == IF group = None THEN None ELSE Some(Val(group)[field])

OrZeroKeepsNull(x) == IF x = None THEN null ELSE Val(x)

\* x || 0 on a numeric cell: a missing value is written as 0
OrZero(x) == IF x = None THEN 0 ELSE Val(x)

\* x || 'unknown' on the status cell: missing or empty is written as 'unknown'
OrUnknown(x) == IF x = None THEN "unknown" ELSE IF Val(x) = "" THEN "unknown" ELSE Val(x)

\* metrics.threadPoolStats?.find(p => p.name === name)?.rejected
PoolRejected(m, name) ==
    IF m.threadPoolStats = None THEN None
    ELSE LET rows == SelectSeq(Val(m.threadPoolStats), LAMBDA p : p.name = name)
         IN  IF rows = <<>> THEN None ELSE Some(rows[1].rejected)

\* const firstNode = metrics.nodeStats?.[0]
FirstNode(m) ==
    IF m.nodeStats = None \/ Val(m.nodeStats) = <<>> THEN None ELSE Some(Val(m.nodeStats)[1])

\* avgRefreshTime: refresh time per refresh when index stats are present, else '0'
AvgRefreshTime(m) ==
    IF m.indexStats # None /\ Val(m.indexStats).refresh_total > 0
    THEN ToFixed2(Val(m.indexStats).refresh_time_in_millis, Val(m.indexStats).refresh_total)
    ELSE 0

\* indexingRate: documents per second when index stats are present, else '0'
IndexingRate(m) ==
    IF m.indexStats # None /\ Val(m.indexStats).index_time_in_millis # 0
    THEN ToFixed2(1000 * Val(m.indexStats).index_total, Val(m.indexStats).index_time_in_millis)
    ELSE 0

Field(column, value) == [column |-> column, value |-> value]

\* saveSummaryCSV: const row = [...], each value with the column it is computed for
CsvRow(m) ==
    << Field("timestamp", m.timestamp),
       Field("cluster_status", OrUnknown(Chain(m.clusterHealth, "status"))),
       Field("active_nodes", OrZero(Chain(m.clusterHealth, "number_of_nodes"))),
       Field("pending_tasks", OrZero(m.pendingTasks)),
       Field("write_rejections", OrZero(PoolRejected(m, "write"))),
       Field("bulk_rejections", OrZero(PoolRejected(m, "bulk"))),
       Field("search_rejections", OrZero(PoolRejected(m, "search"))),
       Field("jvm_memory_percent", OrZero(Chain(FirstNode(m), "heap_used_percent"))),
       Field("cpu_percent", OrZero(Chain(FirstNode(m), "cpu_percent"))),
       Field("avg_refresh_time_ms", AvgRefreshTime(m)),
       Field("indexing_rate", IndexingRate(m)),
       Field("critical_issues_count", Len(m.summary.critical_issues)),
       Field("warnings_count", Len(m.summary.warnings)),
       Field("active_searches", m.summary.active_searches),
       Field("long_running_queries_5s", m.summary.long_running_queries_5s),
       Field("long_running_queries_10s", m.summary.long_running_queries_10s),
       Field("long_running_queries_30s", m.summary.long_running_queries_30s),
       Field("circuit_breaker_trips", m.summary.circuit_breaker_trips),
       Field("search_queue_saturation_pct", m.summary.search_queue_saturation_pct),
       Field("segment_count_pms_green_dot", OrZero(Chain(m.segmentStats, "count"))),
       Field("segment_count_pms_user_rooms", OrZero(Chain(m.segmentStatsUserRooms, "count"))),
       Field("query_cache_evictions", OrZero(Chain(m.cacheMetrics, "queryCacheEvictions"))),
       Field("field_data_evictions", OrZero(Chain(m.cacheMetrics, "fieldDataEvictions"))) >>

\* if (!fs.existsSync(csvFile)) fs.writeFileSync(csvFile, headers + '\n')
HeaderAlways(file) == <<[kind |-> "header", cells |-> CsvHeaders]>>
WithHeader(file) ==
    IF file = <<>> THEN <<[kind |-> "header", cells |-> CsvHeaders]>> ELSE file

\* saveSummaryCSV(metrics): the file after the call
\* fs.appendFileSync(csvFile, row.join(',') + '\n')
SaveSummaryCSV(file, m) == Append(WithHeader(file), [kind |-> "row", cells |-> CsvRow(m)])

\* this.saveSummaryCSV(metrics); runFullCheck returns metrics
SaveCsv ==
    /\ pc = "saveCsv"
    /\ csvRows' = csvRows + 1
    /\ csvFile' = SaveSummaryCSV(csvFile, metrics)
    /\ cycleResult' = "snapshot"
    /\ pc' = AfterReturn(mode)
    /\ UNCHANGED <<cluster, mode, interval, cycle, metrics, failed, executed, waited, jsonFiles>>
    /\ UNCHANGED loadVars

\* try { ...; await new Promise(resolve => setTimeout(resolve, interval * 1000)) }
WaitAfterCycle ==
    /\ pc = "wait"
    /\ waited' = SleepMs(interval)
    /\ pc' = "start"
    /\ UNCHANGED <<cluster, mode, interval, cycle, metrics, failed, executed, cycleResult,
                   jsonFiles, csvRows,
                   csvFile>>
    /\ UNCHANGED loadVars

\* catch (error) { console.error(...); await new Promise(... interval * 1000) }
WaitAfterError ==
    /\ pc = "waitAfterError"
    /\ waited' = SleepMs(interval)
    /\ pc' = "start"
    /\ UNCHANGED <<cluster, mode, interval, cycle, metrics, failed, executed, cycleResult,
                   jsonFiles, csvRows,
                   csvFile>>
    /\ UNCHANGED loadVars

\* The process has ended and the script is started once more, in either mode;
\* the files of metrics-output stay.
RunAgain(m) ==
    /\ pc = "exit"
    /\ cycle < MaxCycles
    /\ mode' = m
    /\ pc' = "start"
    /\ cycleResult' = "none"
    /\ waited' = null
    /\ failed' = {}
    /\ executed' = <<>>
    /\ metrics' = FreshMetricsResult
    /\ UNCHANGED <<cluster, interval, cycle, jsonFiles, csvRows, csvFile>>
    /\ UNCHANGED loadVars

\* The load driver's variables while the collector runs.
LoadIdle ==
    /\ script = "none"
    /\ started = 0
    /\ vuPc = <<>>
    /\ iter = <<>>
    /\ room = <<>>
    /\ responses = <<>>
    /\ classified = <<>>
    /\ counters = ZeroCounters
    /\ firstErrorIteration = <<>>
    /\ firstS3SlowDownIteration = <<>>
    /\ firstTimeoutIteration = <<>>
    /\ report = <<>>
    /\ logs = <<>>

\* main(): process.argv gives the mode and the interval (default 30).
CollectorInit ==
    /\ cluster \in {BaselineCluster, StressedCluster}
    /\ mode \in {"single", "continuous"}
    /\ interval \in {10, 30}
    /\ pc = "start"
    /\ cycle = 0
    /\ metrics = FreshMetricsResult
    /\ failed = {}
    /\ executed = <<>>
    /\ cycleResult = "none"
    /\ waited = null
    /\ jsonFiles = 0
    /\ csvRows = 0
    /\ csvFile = <<>>
    /\ LoadIdle

CollectorNext ==
    \/ BeginCycle
    \/ \E ok \in BOOLEAN : InitializeClient(ok)
    \/ \E ok \in BOOLEAN : Fetch(ok)
    \/ Analyze
    \/ \E ok \in BOOLEAN : SaveJson(ok)
    \/ SaveCsv
    \/ WaitAfterCycle
    \/ WaitAfterError
    \/ \E m \in {"single", "continuous"} : RunAgain(m)

SpecCollector == CollectorInit /\ [][CollectorNext]_vars

-----------------------------------------------------------------------------
(***************************************************************************)
(* The threshold evaluator over cluster states: successive polls of a      *)
(* cluster in which one metric changes between two polls, no fetch fails.  *)
(***************************************************************************)

MaxDeviations == 2   \* metrics that differ from BaselineCluster at a time

\* runFullCheck up to analyzeCriticalIssues when every cluster call succeeds
RunChecks(c) ==
    LET F[i \in 0..Len(FetchSteps)] ==
            IF i = 0 THEN FreshMetricsResult
            ELSE StoreGroup(F[i - 1], FetchSteps[i].name, FetchOk(FetchSteps[i].name, c))
    IN  AnalyzeCriticalIssues(F[Len(FetchSteps)])

Differing(f, g) == Cardinality({x \in DOMAIN f : f[x] # g[x]})

Deviations(c) ==
    LET b == BaselineCluster
    IN  Bump(c.status # b.status) + Differing(c.queue, b.queue)
        + Differing(c.rejected, b.rejected) + Differing(c.heap, b.heap)
        + Differing(c.cpu, b.cpu) + Differing(c.old_gc, b.old_gc)
        + Bump(c.refresh_time # b.refresh_time) + Bump(c.pending # b.pending)
        + Bump(c.tasks # b.tasks) + Differing(c.tripped, b.tripped)
        + Bump(c.query_cache # b.query_cache) + Bump(c.field_data # b.field_data)
        + Bump(c.segments # b.segments)
        + Bump(c.segments_user_rooms # b.segments_user_rooms)

\* The cluster states that differ from c in exactly one metric.
OneMetricChanged(c) ==
    ( {[c EXCEPT !.status = x] : x \in Statuses}
      \cup {[c EXCEPT !.queue[p] = x] : p \in WatchedPools, x \in QueueDepths}
      \cup {[c EXCEPT !.rejected[p] = x] : p \in WatchedPools, x \in RejectedCounts}
      \cup {[c EXCEPT !.heap[n] = x] : n \in DOMAIN Nodes, x \in HeapPercents}
      \cup {[c EXCEPT !.cpu[n] = x] : n \in DOMAIN Nodes, x \in CpuPercents}
      \cup {[c EXCEPT !.old_gc[n] = x] : n \in DOMAIN Nodes, x \in OldGcCounts}
      \cup {[c EXCEPT !.refresh_time = x] : x \in RefreshTimes}
      \cup {[c EXCEPT !.pending = x] : x \in PendingCounts}
      \cup {[c EXCEPT !.tasks = x] : x \in TaskLists}
      \cup {[c EXCEPT !.tripped[b] = x] : b \in DOMAIN Breakers, x \in TripCounts}
      \cup {[c EXCEPT !.query_cache = x] : x \in QueryCacheEvictions}
      \cup {[c EXCEPT !.field_data = x] : x \in FieldDataEvictions}
      \cup {[c EXCEPT !.segments = x] : x \in SegmentCounts}
      \cup {[c EXCEPT !.segments_user_rooms = x] : x \in SegmentCounts} ) \ {c}

\* One metric of the cluster changes and the next poll cycle runs.
PollAfterChange(c) ==
    /\ Deviations(c) <= MaxDeviations
    /\ cluster' = c
    /\ metrics' = RunChecks(c)
    /\ cycleResult' = "snapshot"
    /\ UNCHANGED <<mode, interval, pc, cycle, failed, executed, waited, jsonFiles, csvRows,
                   csvFile>>
    /\ UNCHANGED loadVars

ClassifyInit ==
    /\ cluster = BaselineCluster
    /\ mode = "continuous"
    /\ interval = 30
    /\ pc = "analyzed"
    /\ cycle = 0
    /\ metrics = RunChecks(BaselineCluster)
    /\ failed = {}
    /\ executed = <<>>
    /\ cycleResult = "snapshot"
    /\ waited = null
    /\ jsonFiles = 0
    /\ csvRows = 0
    /\ csvFile = <<>>
    /\ LoadIdle

ClassifyNext == \E c \in OneMetricChanged(cluster) : PollAfterChange(c)

SpecClassify == ClassifyInit /\ [][ClassifyNext]_vars

-----------------------------------------------------------------------------
(***************************************************************************)
(* Properties of the metrics collector                                     *)
(***************************************************************************)

SpecCollectorLive == SpecCollector /\ WF_vars(CollectorNext)

CycleEnded == cycleResult \in {"snapshot", "threw"}

\* C3: in a poll cycle in which the fetch of exactly one metric group fails,
\* every remaining fetch is still executed and the cycle yields a snapshot in
\* which every group other than the failed one is populated.
C3_SingleFetchFailureIsolated ==
    (CycleEnded /\ Cardinality(failed) = 1) =>
        /\ Len(executed) = Len(FetchSteps)
        /\ cycleResult = "snapshot"
        /\ \A g \in Groups \ failed : metrics[g] # None

\* C4: in continuous mode a cycle that fails is caught (the loop goes to its
\* wait, the process does not exit), the wait after a failed cycle is the
\* same interval * 1000 ms as the wait after a successful one, the wait leads
\* back to the top of the loop, and the next cycle does start.
C4_FailedCycleIsCaught ==
    (cycleResult' = "threw" /\ cycleResult # "threw") => pc' = "waitAfterError"

C4_SameWait ==
    /\ pc = "waitAfterError" => (waited' = interval * 1000 /\ pc' = "start")
    /\ pc = "wait" => (waited' = interval * 1000 /\ pc' = "start")

C4_FailedCycleKeepsLoopAlive ==
    /\ [][mode = "continuous" => (C4_FailedCycleIsCaught /\ C4_SameWait /\ pc' # "exit")]_vars
    /\ (mode = "continuous" /\ cycleResult = "threw" /\ cycle < MaxCycles) ~> (pc = "init")

\* C4 witness: a continuous-mode loop that went through a failed cycle and
\* its wait, and is back at the top of the loop.
C4_Witness ==
    /\ mode = "continuous"
    /\ cycleResult = "threw"
    /\ pc = "start"
    /\ waited = interval * 1000
    /\ failed # {}

Issues == metrics.summary.critical_issues
Warnings == metrics.summary.warnings

CountEntries(list, rule, subject) ==
    Cardinality({i \in DOMAIN list : list[i].rule = rule /\ list[i].subject = subject})

\* Entries about the queue of pool p: its own queue entry, and the saturation
\* entry when p is the pool the maximum saturation comes from.
QueueEntries(list, p) ==
    CountEntries(list, "queue", p.name)
    + Bump(/\ metrics.queueMetrics # None
           /\ \E i \in DOMAIN Val(metrics.queueMetrics).poolData :
                 Val(metrics.queueMetrics).poolData[i].name = p.name
           /\ Saturation(p) = Val(metrics.queueMetrics).maxSaturation
           /\ CountEntries(list, "saturation", "") > 0)

\* C7: a pool whose queue fill is above 50% and at most 80% has exactly one
\* warning and no critical entry; a pool above 80% has a critical entry and
\* no warning.
C7_PoolQueueFillBands ==
    \A i \in DOMAIN Val(metrics.threadPoolStats) :
        LET p == Val(metrics.threadPoolStats)[i]
        IN  /\ (100 * p.queue > 50 * p.queue_size /\ 100 * p.queue <= 80 * p.queue_size)
                  => (QueueEntries(Warnings, p) = 1 /\ QueueEntries(Issues, p) = 0)
            /\ (100 * p.queue > 80 * p.queue_size)
                  => (QueueEntries(Issues, p) >= 1 /\ QueueEntries(Warnings, p) = 0)

BandEntries(rule, subject, value, warnAbove, critAbove) ==
    /\ value > critAbove =>
          (CountEntries(Issues, rule, subject) = 1 /\ CountEntries(Warnings, rule, subject) = 0)
    /\ (value > warnAbove /\ value <= critAbove) =>
          (CountEntries(Warnings, rule, subject) = 1 /\ CountEntries(Issues, rule, subject) = 0)
    /\ value <= warnAbove =>
          (CountEntries(Warnings, rule, subject) = 0 /\ CountEntries(Issues, rule, subject) = 0)

\* C8: for every node, heap above 85 gives exactly one critical JVM entry and
\* no warning, heap in (75, 85] exactly one warning and no critical entry,
\* heap of at most 75 neither; the same for CPU with 80 and 90.
C8_HeapAndCpuBands ==
    \A i \in DOMAIN Val(metrics.nodeStats) :
        LET node == Val(metrics.nodeStats)[i]
        IN  /\ BandEntries("jvm", node.name, node.heap_used_percent, 75, 85)
            /\ BandEntries("cpu", node.name, node.cpu_percent, 80, 90)

\* C8 witness: a poll of a cluster with one node above the critical heap
\* bound and one node in the CPU warning band.
C8_Witness ==
    /\ \E i \in DOMAIN Val(metrics.nodeStats) :
          /\ Val(metrics.nodeStats)[i].heap_used_percent > 85
          /\ CountEntries(Issues, "jvm", Val(metrics.nodeStats)[i].name) = 1
    /\ \E i \in DOMAIN Val(metrics.nodeStats) :
          /\ Val(metrics.nodeStats)[i].cpu_percent > 80
          /\ Val(metrics.nodeStats)[i].cpu_percent <= 90
          /\ CountEntries(Warnings, "cpu", Val(metrics.nodeStats)[i].name) = 1

RECURSIVE IsSubseq(_, _)
IsSubseq(s, t) ==
    IF s = <<>> THEN TRUE
    ELSE IF t = <<>> THEN FALSE
    ELSE IF Head(s) = Head(t) THEN IsSubseq(Tail(s), Tail(t))
    ELSE IsSubseq(s, Tail(t))

Keys(list) == [i \in DOMAIN list |-> <<list[i].rule, list[i].subject>>]

Band(value, warnAbove, critAbove) ==
    IF value > critAbove THEN 2 ELSE IF value > warnAbove THEN 1 ELSE 0

RefreshBand(m) ==
    LET ix == Val(m.indexStats)
    IN  Band(ix.refresh_time_in_millis, 50 * ix.refresh_total, 100 * ix.refresh_total)

StatusBand(status) == IF status = "red" THEN 2 ELSE IF status = "yellow" THEN 1 ELSE 0

\* The effect the claim gives to one metric moving from band b to band b2
\* between two polls.
LocalStep(b, b2) ==
    /\ (b = 0 /\ b2 = 1) =>
          /\ Len(Warnings') = Len(Warnings) + 1
          /\ Len(Issues') = Len(Issues)
          /\ IsSubseq(Keys(Warnings), Keys(Warnings'))
          /\ IsSubseq(Keys(Issues), Keys(Issues'))
    /\ (b < 2 /\ b2 = 2) =>
          /\ Len(Issues') = Len(Issues) + 1
          /\ IsSubseq(Keys(Issues), Keys(Issues'))
          /\ Len(Warnings') >= Len(Warnings) - b

\* C9: between two polls that differ in one metric, moving the metric from
\* below its warning threshold into the warning band adds exactly one warning
\* and no issue, moving it past its critical threshold adds exactly one
\* issue, and the entries of the other metrics stay, in the same order.
C9_ClassificationLocal ==
    [][ /\ LocalStep(StatusBand(cluster.status), StatusBand(cluster'.status))
        /\ \A p \in WatchedPools :
              LocalStep(Band(cluster.queue[p], 50, 80), Band(cluster'.queue[p], 50, 80))
        /\ \A n \in DOMAIN Nodes :
              /\ LocalStep(Band(cluster.heap[n], 75, 85), Band(cluster'.heap[n], 75, 85))
              /\ LocalStep(Band(cluster.cpu[n], 80, 90), Band(cluster'.cpu[n], 80, 90))
        /\ LocalStep(RefreshBand(metrics), RefreshBand(metrics'))
      ]_vars

-----------------------------------------------------------------------------
(***************************************************************************)
(* Further properties of the load drivers                                  *)
(***************************************************************************)

\* The step in which http.post of VU v returned and the response was classified.
RespondStep(v) == Len(responses'[v]) = Len(responses[v]) + 1

StorageMarkers == {"S3", "ServiceUnavailable", "InternalError"}

HasMarker(r, ms) == r.body # <<>> /\ r.body[1] \cap ms # {}

\* C11: per response s3_slowdown_errors grows by at most 1 (by 1 exactly when
\* the body holds SlowDown) and s3_errors_total by at most 1; the storage
\* markers count only when SlowDown is absent, and a body with both kinds
\* takes the rate-limit branch only (no storage-error line is logged).
C11_OverlaysCountOnce ==
    [][\A v \in VUs : RespondStep(v) =>
          LET r == responses'[v][Len(responses'[v])]
              lines == logs'[v][Len(logs'[v])]
              slow == counters'.s3_slowdown_errors - counters.s3_slowdown_errors
              total == counters'.s3_errors_total - counters.s3_errors_total
          IN  /\ slow = Bump(HasMarker(r, {"SlowDown"}))
              /\ total = Bump(HasMarker(r, {"SlowDown"}) \/ HasMarker(r, StorageMarkers))
              /\ HasMarker(r, {"SlowDown"}) =>
                    \A i \in DOMAIN lines : lines[i] # "S3 Error"
              /\ (~HasMarker(r, {"SlowDown"}) /\ HasMarker(r, StorageMarkers)) =>
                    \E i \in DOMAIN lines : lines[i] = "S3 Error"
       ]_vars

\* C11 witness: the only response so far carried SlowDown and a storage
\* marker, and each of the two counters stands at 1.
C11_Witness ==
    /\ counters.total_requests = 1
    /\ \E v \in VUs :
          /\ Len(responses[v]) = 1
          /\ HasMarker(responses[v][1], {"SlowDown"})
          /\ HasMarker(responses[v][1], StorageMarkers)
    /\ counters.s3_slowdown_errors = 1
    /\ counters.s3_errors_total = 1

-----------------------------------------------------------------------------
(***************************************************************************)
(* Further properties of the metrics collector                             *)
(***************************************************************************)

\* C12: after classification the numeric summary fields equal the fetched
\* values, whatever the values are: the four active-task counts, the total
\* of circuit-breaker trips and the maximum queue saturation.
C12_SummaryIsProjection ==
    (cycleResult = "snapshot" /\ metrics.activeTasks # None
       /\ metrics.circuitBreakerStatus # None /\ metrics.queueMetrics # None) =>
        /\ metrics.summary.active_searches = Val(metrics.activeTasks).searchTasks
        /\ metrics.summary.long_running_queries_5s = Val(metrics.activeTasks).longRunning5s
        /\ metrics.summary.long_running_queries_10s = Val(metrics.activeTasks).longRunning10s
        /\ metrics.summary.long_running_queries_30s = Val(metrics.activeTasks).longRunning30s
        /\ metrics.summary.circuit_breaker_trips = Val(metrics.circuitBreakerStatus).totalTrips
        /\ metrics.summary.search_queue_saturation_pct = Val(metrics.queueMetrics).maxSaturation

Columns(line) == [k \in DOMAIN line.cells |-> line.cells[k].column]

TableWellFormed ==
    \/ csvFile = <<>> /\ csvRows = 0
    \/ /\ Len(csvFile) = 1 + csvRows
       /\ csvRows > 0
       /\ csvFile[1].kind = "header"
       /\ csvFile[1].cells = CsvHeaders
       /\ \A i \in 2..Len(csvFile) :
             /\ csvFile[i].kind = "row"
             /\ Columns(csvFile[i]) = CsvHeaders
             /\ i > 2 => csvFile[i - 1].cells[1].value < csvFile[i].cells[1].value

\* C13: the summary table is one header line, written when the file is
\* created, followed by one row per cycle that reached saveSummaryCSV, in
\* cycle order; every row has the header's columns in the header's order;
\* the file only grows by appending, one row per persisted cycle.
C13_TableIsAppendOnly ==
    /\ []TableWellFormed
    /\ [][ /\ SubSeq(csvFile', 1, Len(csvFile)) = csvFile
           /\ pc = "saveCsv" =>
                 /\ Len(csvFile') = Len(csvFile) + 1 + Bump(csvFile = <<>>)
                 /\ csvFile'[Len(csvFile')].cells[1].value = cycle
           /\ pc # "saveCsv" => csvFile' = csvFile ]_vars

\* C13 witness: the table after two single-shot runs, each of which reached
\* persistence: the header and two rows.
C13_Witness ==
    /\ mode = "single"
    /\ pc = "exit"
    /\ Len(csvFile) = 3
    /\ csvFile[3].cells[1].value = 2

\* The cycle ended in initializeOpenSearchClient: it threw before any check ran.
InitFailed == cycleResult = "threw" /\ executed = <<>>

\* C14: when the client initialization fails, the failure ends the process,
\* no metric group was fetched and the classifier did not run.
C14_InitFailureAborts ==
    InitFailed =>
        /\ pc = "exit"
        /\ \A g \in Groups : metrics[g] = None
        /\ metrics.summary = InitialSummary

-----------------------------------------------------------------------------
(***************************************************************************)
(* The breakpoint report and the logs of the load drivers                  *)
(***************************************************************************)

\* The iteration indices (__ITER of the VU concerned) at which a response
\* with property P came back, over all virtual users.
OccurrencesOf(P(_)) ==
    UNION {{k - 1 : k \in {j \in DOMAIN responses[v] : P(responses[v][j])}} : v \in VUs}

AllResponses == UNION {{responses[v][k] : k \in DOMAIN responses[v]} : v \in VUs}

IsTransportTimeout(r) == r.status = 0

IsPlainSuccess(r) == IsSuccess(r) /\ ~IsTimeout(r) /\ ~IsSlowDown(r)

\* C15: the report shows "none detected" for a latch exactly when the latch
\* is unset and its iteration otherwise; a run without failures reports three
\* unset latches and two zero rates; a run whose only failure is one
\* transport timeout at iteration k reports timeout latch k, the other two
\* unset, total_errors = timeout_errors = 1 and error_rate = 1/total_requests.
C15_ReportShowsLatches ==
    report # <<>> =>
      LET rep == report[1]
          timeouts == OccurrencesOf(IsTimeout)
      IN  /\ rep.first_timeout = null <=> timeouts = {}
          /\ rep.first_error = null <=> OccurrencesOf(IsGenericError) = {}
          /\ rep.first_slowdown = null <=> OccurrencesOf(IsSlowDown) = {}
          /\ (\A r \in AllResponses : IsPlainSuccess(r)) =>
                /\ rep.first_timeout = null /\ rep.first_error = null
                /\ rep.first_slowdown = null
                /\ rep.error_rate = 0 /\ rep.timeout_rate = 0
          /\ ( /\ counters.timeout_errors = 1
               /\ \A r \in AllResponses : IsPlainSuccess(r) \/ IsTransportTimeout(r) ) =>
                /\ rep.first_timeout \in timeouts
                /\ rep.first_error = null /\ rep.first_slowdown = null
                /\ rep.total_errors = 1 /\ rep.timeout_errors = 1
                /\ rep.error_rate = ToFixed2(100, rep.total_requests)

\* C16: the value the report gives for a latch is the earliest iteration at
\* which the latch's condition occurred in the run: when the condition
\* occurred at all, a value is reported and no occurrence has a smaller
\* iteration index.
C16_ReportedLatchIsEarliest ==
    report # <<>> =>
      LET rep == report[1]
          Earliest(value, occ) ==
              occ # {} => (value # null /\ \A i \in occ : value <= i)
      IN  /\ Earliest(rep.first_timeout, OccurrencesOf(IsTimeout))
          /\ Earliest(rep.first_error, OccurrencesOf(IsGenericError))
          /\ Earliest(rep.first_slowdown, OccurrencesOf(IsSlowDown))

LoopPositions == {"idle", "request", "sleep"}

\* C17: in one virtual user's loop every iteration issues one request and
\* then sleeps once, in that order, whatever the response was: the VU goes
\* idle -> request -> sleep -> idle only, each response is followed by the
\* sleep, and after the sleep the VU is ready for the next iteration as long
\* as the run has iterations left.
C17_RequestThenSleep ==
    /\ [](\A v \in VUs :
            /\ vuPc[v] \in LoopPositions
            /\ Len(responses[v]) = iter[v] + Bump(vuPc[v] = "sleep")
            /\ (vuPc[v] = "idle" /\ started < Iterations /\ report = <<>>)
                  => ENABLED StartIteration(v))
    /\ [][\A v \in VUs :
            /\ vuPc'[v] # vuPc[v] =>
                  \/ vuPc[v] = "idle" /\ vuPc'[v] = "request"
                  \/ vuPc[v] = "request" /\ vuPc'[v] = "sleep" /\ RespondStep(v)
                  \/ vuPc[v] = "sleep" /\ vuPc'[v] = "idle" /\ iter'[v] = iter[v] + 1
            /\ RespondStep(v) => (vuPc[v] = "request" /\ vuPc'[v] = "sleep")
            /\ iter'[v] # iter[v] => vuPc[v] = "sleep"
       ]_vars

\* C17 witness: a virtual user that got a transport timeout, then an error
\* status with a rate-limit body, then a success, and slept after each.
C17_Witness ==
    \E v \in VUs :
        /\ Len(responses[v]) = 3
        /\ responses[v][1].status = 0
        /\ IsSlowDown(responses[v][2]) /\ responses[v][2].status >= 400
        /\ IsPlainSuccess(responses[v][3])
        /\ iter[v] = 3
        /\ vuPc[v] = "idle"

-----------------------------------------------------------------------------
\* The cycle's snapshot has been classified.
Classified == pc \in {"saveJson", "saveCsv"} \/ cycleResult = "snapshot"

\* C18: the summary of a cycle is a function of the groups fetched in that
\* cycle alone: it equals what the classifier makes of these groups starting
\* from the summary a new snapshot is constructed with, whatever earlier
\* cycles (failed ones included) produced; equal fetch results therefore give
\* equal summaries.
C18_SummaryNotCarriedForward ==
    Classified =>
        metrics.summary
          = AnalyzeCriticalIssues([metrics EXCEPT !.summary = InitialSummary]).summary

\* C18 witness: a first cycle recorded a circuit-breaker trip in its summary
\* and its table row; in the second cycle the breaker fetch fell back to
\* zero trips and the new summary shows none.
C18_Witness ==
    /\ cycle = 2
    /\ pc = "saveJson"
    /\ failed = {"circuitBreakerStatus"}
    /\ Len(csvFile) = 2
    /\ csvFile[2].cells[18].column = "circuit_breaker_trips"
    /\ csvFile[2].cells[18].value = 1
    /\ metrics.summary.circuit_breaker_trips = 0

-----------------------------------------------------------------------------
\* All console lines of the run so far, as <<VU, iteration, position, text>>.
LoggedLines ==
    UNION {UNION {{<<v, k - 1, i, logs[v][k][i]>> : i \in DOMAIN logs[v][k]}
                  : k \in DOMAIN logs[v]} : v \in VUs}

LineCount(text) == Cardinality({l \in LoggedLines : l[4] = text})

\* Occurrences of a category in the run, as <<VU, iteration>>.
Occurred(P(_)) ==
    UNION {{<<v, k - 1>> : k \in {j \in DOMAIN responses[v] : P(responses[v][j])}} : v \in VUs}

\* One "first" line per run when the category occurred, and one repeat line
\* for each later occurrence.
FirstThenRepeats(occ, firstText, repeatText) ==
    /\ LineCount(firstText) = Bump(occ # {})
    /\ occ # {} => LineCount(repeatText) = Cardinality(occ) - 1

\* C19: for timeouts, generic errors and rate-limit responses the "first
\* occurrence" line is logged exactly once per run, and every later
\* occurrence of the category logs a repeat line (for a generic error, whose
\* branch has no line of its own after the first, the "Request failed" line
\* is accepted as the repeat line).
C19_FirstLineOnceThenRepeats ==
    /\ FirstThenRepeats(Occurred(IsTimeout), "FIRST TIMEOUT", "Timeout")
    /\ FirstThenRepeats(Occurred(IsSlowDown), "FIRST S3 SlowDown", "S3 SlowDown")
    /\ LineCount("FIRST ERROR DETECTED") = Bump(Occurred(IsGenericError) # {})
    /\ \A o \in Occurred(IsGenericError) :
          \E l \in LoggedLines :
              /\ l[1] = o[1] /\ l[2] = o[2]
              /\ l[4] \in {"FIRST ERROR DETECTED", "Request failed"}

-----------------------------------------------------------------------------
CounterNames ==
    {"total_requests", "total_errors", "timeout_errors", "s3_slowdown_errors",
     "s3_errors_total", "greendot_updates"}

\* C20: no aggregate counter ever decreases, total_requests grows by exactly
\* one in the step that completes a request and in no other step, and at
\* every point it is the number of completed request exchanges summed over
\* the virtual users.
C20_CountersMonotone ==
    /\ [](counters.total_requests = SumSeq([v \in VUs |-> Len(responses[v])]))
    /\ [][ /\ \A n \in CounterNames : counters'[n] >= counters[n]
           /\ counters'.total_requests - counters.total_requests
                = Cardinality({v \in VUs : RespondStep(v)})
           /\ Cardinality({v \in VUs : RespondStep(v)}) <= 1 ]_vars

\* C20 witness: the whole iteration budget was spent by at least two virtual
\* users, with a timeout and a rate-limit response among the exchanges.
C20_Witness ==
    /\ counters.total_requests = Iterations
    /\ Cardinality({v \in VUs : responses[v] # <<>>}) >= 2
    /\ counters.timeout_errors >= 1
    /\ counters.s3_slowdown_errors >= 1
    /\ \A v \in VUs : vuPc[v] = "idle"

\* ---------------------------------------------------------------------------
\* Defaults of the table row
\* ---------------------------------------------------------------------------

Rows == SelectSeq(csvFile, LAMBDA line : line.kind = "row")

CellOf(row, column) == (CHOOSE k \in DOMAIN row : row[k].column = column)

ValueOf(row, column) == row[CellOf(row, column)].value

LastRow == Rows[Len(Rows)]

\* the groups a table row reads with a default
DefaultedColumns ==
    [ indexStats |-> {"avg_refresh_time_ms", "indexing_rate"},
      segmentStats |-> {"segment_count_pms_green_dot"},
      segmentStatsUserRooms |-> {"segment_count_pms_user_rooms"} ]

\* C21: every cell of every table row is a value: the status cell is a status
\* or 'unknown', every other cell is a number (never null); the row of a
\* snapshot with a missing group has 0 in the columns of that group, the pool
\* absent from the thread-pool rows has 0 rejections, and the row is built
\* whenever the step is reached.
C21_MissingFieldsAreZero ==
    /\ \A i \in DOMAIN Rows : \A k \in DOMAIN Rows[i].cells :
          LET cell == Rows[i].cells[k]
          IN  IF cell.column = "cluster_status"
              THEN cell.value \in Statuses \cup {"unknown"}
              ELSE cell.value # null /\ cell.value >= 0
    /\ \A i \in DOMAIN Rows : ValueOf(Rows[i].cells, "bulk_rejections") = 0
    /\ cycleResult = "snapshot" =>
          \A g \in DOMAIN DefaultedColumns :
             metrics[g] = None =>
                \A column \in DefaultedColumns[g] : ValueOf(LastRow.cells, column) = 0
    /\ pc = "saveCsv" => ENABLED SaveCsv

\* C21 witness: a row was appended for a snapshot whose segment statistics are
\* missing, and its segment-count cell is 0.
C21_Witness ==
    /\ cycleResult = "snapshot"
    /\ metrics.segmentStats = None
    /\ ValueOf(LastRow.cells, "segment_count_pms_green_dot") = 0
    /\ ValueOf(LastRow.cells, "cluster_status") \in Statuses

\* ---------------------------------------------------------------------------
\* Single rules of the classifier
\* ---------------------------------------------------------------------------

LongRunningRules == {"long_running_30s", "long_running_10s", "long_running_5s"}

\* entries of the list that come from a rule about long-running queries
LongRunningEntries(list) ==
    Len(SelectSeq(list, LAMBDA f : f.rule \in LongRunningRules))

\* C22: long-running queries contribute one critical entry exactly when a
\* query has run longer than 30s, one warning entry exactly when a query has
\* run longer than 10s, and no other entry.
C22_LongRunningEntries ==
    metrics.activeTasks # None =>
        LET t == Val(metrics.activeTasks)
        IN  /\ LongRunningEntries(Issues) = Bump(t.longRunning30s > 0)
            /\ LongRunningEntries(Warnings) = Bump(t.longRunning10s > 0)

\* C23: a query-cache eviction warning is recorded exactly when the total
\* query-cache evictions exceed 5000, and never a critical entry.
C23_QueryCacheThreshold ==
    metrics.cacheMetrics # None =>
        /\ CountEntries(Warnings, "query_cache", "")
              = Bump(Val(metrics.cacheMetrics).queryCacheEvictions > 5000)
        /\ CountEntries(Issues, "query_cache", "") = 0

RuleEntries(list, rule) == Len(SelectSeq(list, LAMBDA f : f.rule = rule))

\* C24: every thread-pool entry with rejections has exactly one critical
\* entry and the others have none, the critical rejection entries are as many
\* as the entries with rejections, a positive circuit-breaker trip count has
\* exactly one critical entry and a zero count none, and neither condition
\* adds a warning.
C24_RejectionsAndTripsAreCritical ==
    /\ \A i \in DOMAIN Val(metrics.threadPoolStats) :
          LET p == Val(metrics.threadPoolStats)[i]
          IN  CountEntries(Issues, "rejections", p.name) = Bump(p.rejected > 0)
    /\ RuleEntries(Issues, "rejections")
          = Cardinality({i \in DOMAIN Val(metrics.threadPoolStats) :
                            Val(metrics.threadPoolStats)[i].rejected > 0})
    /\ RuleEntries(Warnings, "rejections") = 0
    /\ metrics.circuitBreakerStatus # None =>
          RuleEntries(Issues, "circuit_breaker")
             = Bump(Val(metrics.circuitBreakerStatus).totalTrips > 0)
    /\ RuleEntries(Warnings, "circuit_breaker") = 0

\* C24 witness: a pool with rejections and tripped circuit breakers in the
\* same snapshot, each with its critical entry.
C24_Witness ==
    /\ \E i \in DOMAIN Val(metrics.threadPoolStats) :
          /\ Val(metrics.threadPoolStats)[i].rejected > 0
          /\ CountEntries(Issues, "rejections", Val(metrics.threadPoolStats)[i].name) = 1
    /\ Val(metrics.circuitBreakerStatus).totalTrips > 0
    /\ RuleEntries(Issues, "circuit_breaker") = 1

\* ---------------------------------------------------------------------------
\* Modes of the collector
\* ---------------------------------------------------------------------------

\* C25: in single-shot mode the step that ends the poll cycle, by returning
\* or by throwing, ends the process, and a cycle begins only when the process
\* has not run one yet; once ended the process begins no cycle; in continuous
\* mode the process never ends.
C25_SingleShotRunsOnce ==
    [][ /\ (mode = "single" /\ cycleResult = "running" /\ cycleResult' # "running")
              => pc' = "exit"
        /\ (mode = "single" /\ cycle' # cycle) => cycleResult = "none"
        /\ pc = "exit" => (cycle' = cycle /\ jsonFiles' = jsonFiles /\ csvFile' = csvFile)
        /\ mode' = "continuous" => pc' # "exit" ]_vars

\* C25 witness: a single-shot process has ended after its one cycle failed.
C25_Witness ==
    /\ mode = "single"
    /\ pc = "exit"
    /\ cycleResult = "threw"
    /\ cycle = 1

\* ---------------------------------------------------------------------------
\* Order of the counters and agreement with the latches
\* ---------------------------------------------------------------------------

\* C26: at every point timeout_errors <= total_errors <= total_requests and
\* s3_slowdown_errors <= s3_errors_total <= total_requests, and the step that
\* completes a request adds exactly 1 to total_requests and 0 or 1 to every
\* other counter.
C26_CountersOrdered ==
    /\ [](/\ counters.timeout_errors <= counters.total_errors
          /\ counters.total_errors <= counters.total_requests
          /\ counters.s3_slowdown_errors <= counters.s3_errors_total
          /\ counters.s3_errors_total <= counters.total_requests)
    /\ [][ \A v \in VUs : RespondStep(v) =>
              /\ counters'.total_requests = counters.total_requests + 1
              /\ \A n \in CounterNames : counters'[n] - counters[n] \in {0, 1} ]_vars

\* C26 witness: a request that got no response (a timeout that is also not a
\* success) was counted as one timeout and one error, next to a rate-limited
\* request counted as one storage error.
C26_Witness ==
    /\ \E v \in VUs : \E i \in DOMAIN responses[v] :
          IsTimeout(responses[v][i]) /\ ~IsSuccess(responses[v][i])
    /\ counters.total_requests = 2
    /\ counters.timeout_errors = 1
    /\ counters.total_errors = 2
    /\ counters.s3_slowdown_errors = 1
    /\ counters.s3_errors_total = 1

\* C27: at every point, in every runtime that holds the latches, the timeout
\* latch is set iff timeout_errors > 0, the rate-limit latch is set iff
\* s3_slowdown_errors > 0, and the generic-error latch is set iff some response
\* was neither a success nor a timeout (and then total_errors > 0).
C27_LatchAgreesWithCounter ==
    \A x \in Runtimes :
        /\ firstTimeoutIteration[x] # null <=> counters.timeout_errors > 0
        /\ firstS3SlowDownIteration[x] # null <=> counters.s3_slowdown_errors > 0
        /\ firstErrorIteration[x] # null <=> OccurrencesOf(IsGenericError) # {}
        /\ firstErrorIteration[x] # null => counters.total_errors > 0

\* ---------------------------------------------------------------------------
\* Order of the steps of a poll cycle
\* ---------------------------------------------------------------------------

FetchNames == [i \in DOMAIN FetchSteps |-> FetchSteps[i].name]

\* the rows of the table that carry the timestamp of the current cycle
RowsOfCycle == SelectSeq(Rows, LAMBDA line : ValueOf(line.cells, "timestamp") = cycle)

\* C28: within a cycle the classifier runs after all fetches, the snapshot
\* file is written after the classifier, the table row after the snapshot
\* file; the row step is entered only by the step that wrote the snapshot
\* file of the cycle, and a cycle that threw in a fetch or in the classifier
\* has written no file and has no row in the table.
C28_CycleStepsOrdered ==
    /\ [](pc \in {"analyze", "saveJson", "saveCsv"} => executed = FetchNames)
    /\ [](pc \in {"saveJson", "saveCsv"} =>
             metrics = AnalyzeCriticalIssues([metrics EXCEPT !.summary = InitialSummary]))
    /\ [](pc \in {"init", "fetch", "analyze", "saveJson", "saveCsv"} => RowsOfCycle = <<>>)
    /\ [](cycleResult = "threw" => RowsOfCycle = <<>>)
    /\ [][ /\ pc' # pc =>
                /\ pc' = "fetch" => pc = "init"
                /\ pc' = "analyze" => pc = "fetch"
                /\ pc' = "saveJson" => pc = "analyze"
                /\ pc' = "saveCsv" => (pc = "saveJson" /\ jsonFiles' = jsonFiles + 1)
           /\ jsonFiles' # jsonFiles => pc = "saveJson"
           /\ csvFile' # csvFile =>
                (pc = "saveCsv" /\ RowsOfCycle' = <<LastRow'>> /\ jsonFiles' = jsonFiles)
           /\ (cycleResult' = "threw" /\ pc \in {"init", "fetch", "analyze"}) =>
                (jsonFiles' = jsonFiles /\ csvFile' = csvFile) ]_vars

\* C28 witness: the second cycle threw in a fetch after the first cycle had
\* written its snapshot file and its row; the files are those of the first.
C28_Witness ==
    /\ cycle = 2
    /\ cycleResult = "threw"
    /\ failed # {}
    /\ jsonFiles = 1
    /\ Len(Rows) = 1
    /\ ValueOf(LastRow.cells, "timestamp") = 1

\* C29: in continuous mode every poll cycle starts with the client
\* initialization and the checks are reached only through it; an
\* initialization failure, in the first cycle as in any other, is caught by
\* the loop (the process does not end), is followed by the wait of
\* interval * 1000 ms, and the next cycle starts with the initialization again.
C29_InitFailureIsRetried ==
    /\ [][ mode = "continuous" =>
              /\ cycle' # cycle => pc' = "init"
              /\ (pc' = "fetch" /\ pc # "fetch") => pc = "init"
              /\ (pc = "init" /\ cycleResult' = "threw") => pc' = "waitAfterError"
              /\ pc = "waitAfterError" => (waited' = interval * 1000 /\ pc' = "start")
              /\ pc' # "exit" ]_vars
    /\ \A k \in 1 .. MaxCycles - 1 :
          (mode = "continuous" /\ InitFailed /\ cycle = k) ~> (pc = "init" /\ cycle = k + 1)

\* C29 witness: the initialization of the very first cycle of a continuous
\* run failed, the loop caught it, waited and is back at its top.
C29_Witness ==
    /\ mode = "continuous"
    /\ cycle = 1
    /\ InitFailed
    /\ pc = "start"
    /\ waited = interval * 1000

\* ---------------------------------------------------------------------------
\* Markers of the node-stats report against the classifier
\* ---------------------------------------------------------------------------

\* the severity a marker of the report stands for
MarkerSeverity(marker) ==
    IF marker = "CRITICAL" THEN "critical" ELSE IF marker = "HIGH" THEN "warning" ELSE "none"

\* the severity the classifier recorded for a rule and a node
EntrySeverity(rule, subject) ==
    IF CountEntries(Issues, rule, subject) > 0 THEN "critical"
    ELSE IF CountEntries(Warnings, rule, subject) > 0 THEN "warning" ELSE "none"

\* C30: for the heap percentage and the CPU percentage of every node the
\* marker of the node-stats report stands for the severity the classifier
\* recorded for the same value, and a heap value above 85 or a CPU value
\* above 90 is marked CRITICAL.
C30_MarkerAgreesWithClassifier ==
    \A i \in DOMAIN Val(metrics.nodeStats) :
        LET node == Val(metrics.nodeStats)[i]
        IN  /\ MarkerSeverity(HeapWarning(node.heap_used_percent))
                  = EntrySeverity("jvm", node.name)
            /\ MarkerSeverity(CpuWarning(node.cpu_percent)) = EntrySeverity("cpu", node.name)
            /\ node.heap_used_percent > 85 => HeapWarning(node.heap_used_percent) = "CRITICAL"
            /\ node.cpu_percent > 90 => CpuWarning(node.cpu_percent) = "CRITICAL"

====
